---- MODULE Spec2Model ----
(***************************************************************************)
(* Profile synchronisation and form confirmation of the workshop planner   *)
(* page (src/pages/index.tsx, component Home).                             *)
(*                                                                         *)
(* Text values are sequences of one-character strings, so that trim() and  *)
(* split("@") are computed, not assumed.  null / undefined are the         *)
(* one-element sequences Null / Undefined, whose token is not a character. *)
(* A remote call is in flight from the step that issues it to the step     *)
(* that handles its response; the store serves the call in the step that   *)
(* delivers the response.  The tool / deployment selectors of              *)
(* WorkshopState and the updated_at column carry no text of the three      *)
(* fields and are left out.  The ship checklist is kept in the component   *)
(* and in localStorage, as the text JSON.stringify writes: here the        *)
(* sequence of its <<key, value>> pairs.                                   *)
(***************************************************************************)
EXTENDS Integers, Sequences, FiniteSets, Bags, TLC

\* ---------------------------------------------------------------- bounds
MaxEvents == 3
MaxPending == 2

\* ---------------------------------------------------------------- values
Null == <<"null">>
Undefined == <<"undefined">>
Empty == <<>>
Space == " "

\* what a user types into an input: blanks only, a padded value, an unpadded
\* value with an inner blank (an input is empty before any typing)
Inputs ==
  {<<Space>>, <<Space, "a", Space>>, <<"b", Space, "b">>}

NoSession == "none"
Users == {"u1", "u2"}
Fields == {"displayName", "buildDescription", "deploymentLink"}

IsNullish(v) == v = Null \/ v = Undefined

\* a ?? b
Coalesce(a, b) == IF IsNullish(a) THEN b ELSE a

\* String.prototype.trim
RECURSIVE TrimStart(_)
TrimStart(s) == IF s # <<>> /\ Head(s) = Space THEN TrimStart(Tail(s)) ELSE s

RECURSIVE TrimEnd(_)
TrimEnd(s) ==
  IF s # <<>> /\ s[Len(s)] = Space THEN TrimEnd(SubSeq(s, 1, Len(s) - 1)) ELSE s

\* trim() mistaken for trimStart()
TrimStartOnly(s) == TrimStart(s)

\* the raw value used where the trimmed one is meant
NoTrim(s) == s

Trim(s) == TrimEnd(TrimStart(s))

\* email.split("@")[0]
RECURSIVE LocalPart(_)
LocalPart(e) ==
  IF e = <<>> \/ Head(e) = "@" THEN <<>> ELSE <<Head(e)>> \o LocalPart(Tail(e))

\* JavaScript truthiness of a string | null | undefined value
Truthy(v) == ~IsNullish(v) /\ v # <<>>

\* ------------------------------------------------------ status messages
MsgNone == ""
MsgNameEmpty == "Add your name before confirming."
MsgNameUnchanged == "Name already saved."
MsgNameSaved == "Name saved."
MsgNameFailed == "Couldn't save name. Try again."
MsgBuildEmpty == "Add your project description before confirming."
MsgBuildUnchanged == "Description already saved."
MsgBuildSaved == "Description saved."
MsgBuildFailed == "Couldn't save description. Try again."
MsgLinkEmpty == "Add a deployment URL before confirming."
MsgLinkUnchanged == "Deployment link already saved."
MsgLinkSaved == "Deployment link locked in. Share it with your cohort!"
MsgLinkFailed == "Couldn't save deployment link. Try again."

EmptyMsg(f) ==
  CASE f = "displayName" -> MsgNameEmpty
    [] f = "buildDescription" -> MsgBuildEmpty
    [] f = "deploymentLink" -> MsgLinkEmpty

UnchangedMsg(f) ==
  CASE f = "displayName" -> MsgNameUnchanged
    [] f = "buildDescription" -> MsgBuildUnchanged
    [] f = "deploymentLink" -> MsgLinkUnchanged

SavedMsg(f) ==
  CASE f = "displayName" -> MsgNameSaved
    [] f = "buildDescription" -> MsgBuildSaved
    [] f = "deploymentLink" -> MsgLinkSaved

FailedMsg(f) ==
  CASE f = "displayName" -> MsgNameFailed
    [] f = "buildDescription" -> MsgBuildFailed
    [] f = "deploymentLink" -> MsgLinkFailed

\* ----------------------------------------------------------------- state
VARIABLES
  session,          \* user id of the current session, or NoSession
  userMeta,         \* what the identity provider reports for each user
  displayName,      \* edit buffer of the name
  state,            \* WorkshopState: buildDescription, deploymentLink, confirmedDeploymentLink
  profileSnapshot,  \* ProfileSnapshot
  status,           \* status line of the deployment link
  nameStatus,
  buildStatus,
  remote,           \* table workshop_profiles, one row per user
  pending,          \* remote calls in flight, with what their continuation captured
  events,           \* number of session changes and input edits so far
  checklist,        \* ship checklist of the component: step key -> checked
  stored,           \* localStorage item "vibe-workshop-checklist"
  mounted           \* the effects of the mounted component have run

vars == <<session, userMeta, displayName, state, profileSnapshot, status, nameStatus,
          buildStatus, remote, pending, events, checklist, stored, mounted>>

checklistVars == <<checklist, stored, mounted>>

ui == <<displayName, state, profileSnapshot, status, nameStatus, buildStatus>>

CHECKLIST_ITEMS ==
  <<"githubRepoCreated", "promptsPrepared", "envVariablesSet", "deploymentConfigured",
    "deploymentDone">>

ChecklistKeys == {CHECKLIST_ITEMS[i] : i \in 1..Len(CHECKLIST_ITEMS)}

\* useState initial value of checklist: every step unchecked
INITIAL_CHECKLIST == [k \in ChecklistKeys |-> FALSE]

\* JSON.stringify of a checklist whose keys are in the order of CHECKLIST_ITEMS
Stringify(map) ==
  SelectSeq([i \in 1..Len(CHECKLIST_ITEMS) |->
               <<CHECKLIST_ITEMS[i],
                 IF CHECKLIST_ITEMS[i] \in DOMAIN map THEN map[CHECKLIST_ITEMS[i]]
                 ELSE FALSE>>],
            LAMBDA pair : pair[1] \in DOMAIN map)

\* JSON.parse of such a text: the object of its pairs, the last pair of a key wins
Parse(text) ==
  [k \in {text[i][1] : i \in 1..Len(text)} |->
     text[CHOOSE i \in 1..Len(text) :
            /\ text[i][1] = k
            /\ \A j \in 1..Len(text) : text[j][1] = k => j <= i][2]]

\* localStorage.getItem: null, a text JSON.parse rejects, or a JSON text
NoStored == [kind |-> "null", text |-> <<>>]

Malformed == [kind |-> "malformed", text |-> <<>>]

StoredJson(text) == [kind |-> "json", text |-> text]

INITIAL_STATE ==
  [buildDescription |-> Empty, deploymentLink |-> Empty, confirmedDeploymentLink |-> Empty]

EmptySnapshot ==
  [displayName |-> Empty, buildDescription |-> Empty, deploymentLink |-> Empty]

NoRow ==
  [exists |-> FALSE, display_name |-> Null, build_description |-> Null,
   deployment_link |-> Null]

NoUpdates ==
  [displayName |-> Undefined, buildDescription |-> Undefined, deploymentLink |-> Undefined]

\* the provider data of the two users of the main specification
FixedMeta ==
  [u \in Users |->
     IF u = "u1"
     THEN [full_name |-> Undefined, name |-> Undefined, user_name |-> <<"a">>,
           email |-> <<"a", "a", "@", "a">>]
     ELSE [full_name |-> Undefined, name |-> Undefined, user_name |-> Undefined,
           email |-> Undefined]]

\* the 'Live URL' badge is rendered
showDeploymentLinkBadge == Truthy(state.confirmedDeploymentLink)

\* the edit buffer of a field
Buffer(f) ==
  CASE f = "displayName" -> displayName
    [] f = "buildDescription" -> state.buildDescription
    [] f = "deploymentLink" -> state.deploymentLink

\* the status line of a field
StatusOf(f) ==
  CASE f = "displayName" -> nameStatus
    [] f = "buildDescription" -> buildStatus
    [] f = "deploymentLink" -> status

Init ==
  /\ session = NoSession
  /\ userMeta = FixedMeta
  /\ displayName = Empty
  /\ state = INITIAL_STATE
  /\ profileSnapshot = EmptySnapshot
  /\ status = MsgNone
  /\ nameStatus = MsgNone
  /\ buildStatus = MsgNone
  /\ remote = [u \in Users |-> NoRow]
  /\ pending = EmptyBag
  /\ events = 0
  /\ checklist = INITIAL_CHECKLIST
  /\ stored = StoredJson(Stringify(INITIAL_CHECKLIST))
  /\ mounted = TRUE

\* -------------------------------------------------------------- helpers
InFlight == BagToSet(pending)

LoadRequest(uid) ==
  [kind |-> "load", uid |-> uid, field |-> "-", value |-> Empty, snapLink |-> Empty]

\* a call of upsertProfile suspended at its await, with what the code after
\* the await reads from its closure: the user id and the field and value of the
\* payload, and for handleConfirmLink the profileSnapshot.deploymentLink of the
\* render that ran the handler
SaveRequest(uid, f, v, snapLink) ==
  [kind |-> "save", uid |-> uid, field |-> f, value |-> v,
   snapLink |-> IF f = "deploymentLink" THEN snapLink ELSE Empty]

\* the argument of upsertProfile: one field set, the others undefined
Updates(f, v) == [NoUpdates EXCEPT ![f] = v]

\* !trimmed
IsEmptyInput(trimmed) == ~Truthy(trimmed)

\* trimmed === profileSnapshot.<field>
IsUnchanged(trimmed, snapshotValue) == trimmed = snapshotValue

DefaultName(meta) ==
  Coalesce(meta.full_name,
    Coalesce(meta.name,
      Coalesce(meta.user_name,
        IF Truthy(meta.email) THEN LocalPart(meta.email) ELSE Empty)))

\* the stored description taken as it comes, without the ?? "" of line 264
BuildDescriptionAsStored(data) ==
  IF data.exists THEN data.build_description ELSE Null

\* data is the row of the user, NoRow when maybeSingle() found none
MergedDisplayName(data, meta) ==
  Coalesce(Coalesce(IF data.exists THEN data.display_name ELSE Undefined,
                    DefaultName(meta)),
           Empty)

MergedBuildDescription(data) ==
  Coalesce(IF data.exists THEN data.build_description ELSE Undefined, Empty)

MergedDeploymentLink(data) ==
  Coalesce(IF data.exists THEN data.deployment_link ELSE Undefined, Empty)

\* the columns upsertProfile sends
UpsertPayload(uid, updates) ==
  [user_id |-> uid,
   display_name |-> updates.displayName,
   build_description |-> updates.buildDescription,
   deployment_link |-> updates.deploymentLink]

\* upsert(payload, { onConflict: "user_id" }): the columns of the payload are
\* written, the other columns of an existing row stay
ApplyUpsert(row, payload) ==
  [exists |-> TRUE,
   display_name |->
     IF payload.display_name # Undefined THEN payload.display_name ELSE row.display_name,
   build_description |->
     IF payload.build_description # Undefined THEN payload.build_description
     ELSE row.build_description,
   deployment_link |->
     IF payload.deployment_link # Undefined THEN payload.deployment_link
     ELSE row.deployment_link]

\* upsertProfile returning true without having stored the saved value
SnapshotNotUpdated(prevSnap, updates) == prevSnap

\* the snapshot rebuilt from the payload alone, not from the previous snapshot
SnapshotFromUpdatesOnly(prevSnap, updates) ==
  [displayName |-> Coalesce(updates.displayName, Empty),
   buildDescription |-> Coalesce(updates.buildDescription, Empty),
   deploymentLink |-> Coalesce(updates.deploymentLink, Empty)]

\* setProfileSnapshot((prev) => ...) of upsertProfile
SnapshotAfterUpsert(prevSnap, updates) ==
  [displayName |->
     IF updates.displayName # Undefined THEN Coalesce(updates.displayName, Empty)
     ELSE prevSnap.displayName,
   buildDescription |->
     IF updates.buildDescription # Undefined THEN Coalesce(updates.buildDescription, Empty)
     ELSE prevSnap.buildDescription,
   deploymentLink |->
     IF updates.deploymentLink # Undefined THEN Coalesce(updates.deploymentLink, Empty)
     ELSE prevSnap.deploymentLink]

\* upsertProfile storing the updates before it looks at the error of the upsert
SnapshotSetBeforeErrorCheck(prevSnap, updates) == SnapshotAfterUpsert(prevSnap, updates)

\* upsertProfile returning false on error: setProfileSnapshot is never called
SnapshotAfterFailure(prevSnap, updates) == prevSnap

\* the confirmedDeploymentLink that handleConfirmLink restores when the save failed
RollbackLink(req) == req.snapLink

\* ---------------------------------------------------------------- steps
\* setSession from getSession() / onAuthStateChange, and the effect on [session]
SessionChange(s) ==
  /\ UNCHANGED checklistVars
  /\ events < MaxEvents
  /\ ~(s = NoSession /\ session = NoSession)
  /\ session' = s
  /\ events' = events + 1
  /\ IF s = NoSession
     THEN /\ displayName' = Empty
          /\ profileSnapshot' = EmptySnapshot
          /\ status' = MsgNone
          /\ nameStatus' = MsgNone
          /\ buildStatus' = MsgNone
          /\ state' = INITIAL_STATE
          /\ pending' = pending
     ELSE /\ BagCardinality(pending) < MaxPending
          /\ pending' = pending (+) SetToBag({LoadRequest(s)})
          /\ UNCHANGED ui
  /\ UNCHANGED <<userMeta, remote>>

\* loadProfile after its await
LoadDone(req, ok) ==
  /\ UNCHANGED checklistVars
  /\ req \in InFlight
  /\ req.kind = "load"
  /\ UNCHANGED <<session, userMeta, remote, events>>
  /\ pending' = pending (-) SetToBag({req})
  /\ IF ~ok
     THEN UNCHANGED ui
     ELSE LET data == remote[req.uid]
              meta == userMeta[req.uid]
              mergedDisplayName == MergedDisplayName(data, meta)
              mergedBuildDescription == MergedBuildDescription(data)
              mergedDeploymentLink == MergedDeploymentLink(data)
          IN  /\ displayName' = mergedDisplayName
              /\ profileSnapshot' =
                   [displayName |-> mergedDisplayName,
                    buildDescription |-> mergedBuildDescription,
                    deploymentLink |-> mergedDeploymentLink]
              /\ state' = [state EXCEPT !.buildDescription = mergedBuildDescription,
                                        !.deploymentLink = mergedDeploymentLink,
                                        !.confirmedDeploymentLink = mergedDeploymentLink]
              /\ nameStatus' = MsgNone
              /\ buildStatus' = MsgNone
              /\ status' = MsgNone

\* onChange of the displayName input; a change event carries a new value
DisplayNameChange(v) ==
  /\ UNCHANGED checklistVars
  /\ session # NoSession
  /\ v # displayName
  /\ events < MaxEvents
  /\ events' = events + 1
  /\ displayName' = v
  /\ nameStatus' = MsgNone
  /\ UNCHANGED <<session, userMeta, state, profileSnapshot, status, buildStatus, remote,
                 pending>>

\* onChange of the build description textarea
BuildDescriptionChange(v) ==
  /\ UNCHANGED checklistVars
  /\ session # NoSession
  /\ v # state.buildDescription
  /\ events < MaxEvents
  /\ events' = events + 1
  /\ state' = [state EXCEPT !.buildDescription = v]
  /\ buildStatus' = MsgNone
  /\ UNCHANGED <<session, userMeta, displayName, profileSnapshot, status, nameStatus,
                 remote, pending>>

\* the onChange of the deployLink input that keeps the confirmed link it had
DeployLinkChangeKeepingBadge(v) ==
  /\ UNCHANGED checklistVars
  /\ session # NoSession
  /\ v # state.deploymentLink
  /\ events < MaxEvents
  /\ events' = events + 1
  /\ state' = [state EXCEPT !.deploymentLink = v]
  /\ status' = MsgNone
  /\ UNCHANGED <<session, userMeta, displayName, profileSnapshot, nameStatus, buildStatus,
                 remote, pending>>

\* onChange of the deployLink input
DeployLinkChange(v) ==
  /\ UNCHANGED checklistVars
  /\ session # NoSession
  /\ v # state.deploymentLink
  /\ events < MaxEvents
  /\ events' = events + 1
  /\ state' = [state EXCEPT !.deploymentLink = v, !.confirmedDeploymentLink = Empty]
  /\ status' = MsgNone
  /\ UNCHANGED <<session, userMeta, displayName, profileSnapshot, nameStatus, buildStatus,
                 remote, pending>>

\* upsertProfile up to its await. The handlers run only while the signed-in
\* page is rendered, so the early return on a missing session is never taken.
IssueUpsert(f, v, snapLink) ==
  /\ session # NoSession
  /\ BagCardinality(pending) < MaxPending
  /\ pending' = pending (+) SetToBag({SaveRequest(session, f, v, snapLink)})

handleConfirmName ==
  /\ UNCHANGED checklistVars
  /\ session # NoSession
  /\ UNCHANGED <<session, userMeta, state, profileSnapshot, status, buildStatus, remote,
                 events>>
  /\ LET trimmed == Trim(displayName)
     IN  IF IsEmptyInput(trimmed)
         THEN /\ nameStatus' = MsgNameEmpty
              /\ UNCHANGED <<displayName, pending>>
         ELSE /\ displayName' = trimmed
              /\ IF IsUnchanged(trimmed, profileSnapshot.displayName)
                 THEN /\ nameStatus' = MsgNameUnchanged
                      /\ UNCHANGED pending
                 ELSE /\ IssueUpsert("displayName", trimmed, profileSnapshot.deploymentLink)
                      /\ UNCHANGED nameStatus

handleConfirmBuildDescription ==
  /\ UNCHANGED checklistVars
  /\ session # NoSession
  /\ UNCHANGED <<session, userMeta, displayName, profileSnapshot, status, nameStatus,
                 remote, events>>
  /\ LET trimmed == Trim(state.buildDescription)
     IN  IF IsEmptyInput(trimmed)
         THEN /\ buildStatus' = MsgBuildEmpty
              /\ UNCHANGED <<state, pending>>
         ELSE /\ state' = [state EXCEPT !.buildDescription = trimmed]
              /\ IF IsUnchanged(trimmed, profileSnapshot.buildDescription)
                 THEN /\ buildStatus' = MsgBuildUnchanged
                      /\ UNCHANGED pending
                 ELSE /\ IssueUpsert("buildDescription", trimmed,
                                     profileSnapshot.deploymentLink)
                      /\ UNCHANGED buildStatus

handleConfirmLink ==
  /\ UNCHANGED checklistVars
  /\ session # NoSession
  /\ UNCHANGED <<session, userMeta, displayName, profileSnapshot, nameStatus, buildStatus,
                 remote, events>>
  /\ LET trimmedLink == Trim(state.deploymentLink)
     IN  IF IsEmptyInput(trimmedLink)
         THEN /\ status' = MsgLinkEmpty
              /\ UNCHANGED <<state, pending>>
         ELSE /\ state' = [state EXCEPT !.deploymentLink = trimmedLink,
                                        !.confirmedDeploymentLink = trimmedLink]
              /\ IF IsUnchanged(trimmedLink, profileSnapshot.deploymentLink)
                 THEN /\ status' = MsgLinkUnchanged
                      /\ UNCHANGED pending
                 ELSE /\ IssueUpsert("deploymentLink", trimmedLink,
                                     profileSnapshot.deploymentLink)
                      /\ UNCHANGED status

\* upsertProfile after its await, and the rest of the handler that awaited it
SaveDone(req, ok) ==
  /\ UNCHANGED checklistVars
  /\ req \in InFlight
  /\ req.kind = "save"
  /\ UNCHANGED <<session, userMeta, displayName, events>>
  /\ LET updates == Updates(req.field, req.value)
     IN  /\ pending' = pending (-) SetToBag({req})
         /\ remote' =
              IF ok
              THEN [remote EXCEPT ![req.uid] = ApplyUpsert(@, UpsertPayload(req.uid, updates))]
              ELSE remote
         /\ profileSnapshot' =
              IF ok THEN SnapshotAfterUpsert(profileSnapshot, updates)
              ELSE SnapshotAfterFailure(profileSnapshot, updates)
         /\ CASE req.field = "displayName" ->
                   /\ nameStatus' = IF ok THEN MsgNameSaved ELSE MsgNameFailed
                   /\ UNCHANGED <<state, status, buildStatus>>
              [] req.field = "buildDescription" ->
                   /\ buildStatus' = IF ok THEN MsgBuildSaved ELSE MsgBuildFailed
                   /\ UNCHANGED <<state, status, nameStatus>>
              [] req.field = "deploymentLink" ->
                   /\ state' = IF ok THEN state
                               ELSE [state EXCEPT !.confirmedDeploymentLink = RollbackLink(req)]
                   /\ status' = IF ok THEN MsgLinkSaved ELSE MsgLinkFailed
                   /\ UNCHANGED <<nameStatus, buildStatus>>

\* what happens besides session changes
PageStep ==
  \/ \E req \in InFlight, ok \in BOOLEAN : LoadDone(req, ok)
  \/ \E v \in Inputs : DisplayNameChange(v)
  \/ \E v \in Inputs : BuildDescriptionChange(v)
  \/ \E v \in Inputs : DeployLinkChange(v)
  \/ handleConfirmName
  \/ handleConfirmBuildDescription
  \/ handleConfirmLink
  \/ \E req \in InFlight, ok \in BOOLEAN : SaveDone(req, ok)

\* one attendee, who signs in, whose session is refreshed, who signs out
Next ==
  \/ \E s \in {"u1", NoSession} : SessionChange(s)
  \/ PageStep

Spec == Init /\ [][Next]_vars

\* the same with a second attendee signing in on the same page
NextSwitch ==
  \/ \E s \in Users \cup {NoSession} : SessionChange(s)
  \/ PageStep

SpecSwitch == Init /\ [][NextSwitch]_vars

\* ------------------------------------------------ the fallback name alone
\* every combination of a stored name and of provider data for user u1
NameValues(c) == {Undefined, Empty, <<c>>}

Emails == {Undefined, Empty, <<"e", "@", "x">>, <<"@", "x">>}

Metas ==
  [full_name : NameValues("f"), name : NameValues("n"), user_name : NameValues("u"),
   email : Emails]

StoredRows ==
  {NoRow} \cup
  {[exists |-> TRUE, display_name |-> d, build_description |-> Null,
    deployment_link |-> Null] : d \in {Null, Empty, <<"s">>}}

InitName ==
  /\ session = NoSession
  /\ userMeta \in {[u \in Users |-> m] : m \in Metas}
  /\ displayName = Empty
  /\ state = INITIAL_STATE
  /\ profileSnapshot = EmptySnapshot
  /\ status = MsgNone
  /\ nameStatus = MsgNone
  /\ buildStatus = MsgNone
  /\ remote \in {[u \in Users |-> IF u = "u1" THEN r ELSE NoRow] : r \in StoredRows}
  /\ pending = EmptyBag
  /\ events = 0
  /\ checklist = INITIAL_CHECKLIST
  /\ stored = StoredJson(Stringify(INITIAL_CHECKLIST))
  /\ mounted = TRUE

NextName ==
  \/ \E s \in {"u1", NoSession} : SessionChange(s)
  \/ \E req \in InFlight, ok \in BOOLEAN : LoadDone(req, ok)

SpecName == InitName /\ [][NextName]_vars

\* ------------------------------------------------- the ship checklist
profileVars == <<session, userMeta, displayName, state, profileSnapshot, status,
                 nameStatus, buildStatus, remote, pending, events>>

\* checked={Boolean(checklist[item.key])}
Checked(map, key) == key \in DOMAIN map /\ map[key]

\* { ...prev, ...parsed }
MergeStored(prev, parsed) ==
  [k \in DOMAIN prev \cup DOMAIN parsed |->
     IF k \in DOMAIN parsed THEN parsed[k] ELSE prev[k]]

\* the toggle written without the spread of the previous checklist
ToggleWithoutSpread(prev, key) == [k \in {key} |-> ~Checked(prev, key)]

\* { ...prev, [key]: !prev[key] }
ToggleChecklist(prev, key) ==
  [k \in DOMAIN prev \cup {key} |-> IF k = key THEN ~Checked(prev, key) ELSE prev[k]]

\* what an earlier visit can have left in localStorage: nothing, a text that
\* does not parse, or the checklist of a version without the last step, whole
\* or in part
StoredValues ==
  {NoStored, Malformed} \cup
  {StoredJson(Stringify(m)) :
     m \in UNION {[K -> BOOLEAN] : K \in SUBSET (ChecklistKeys \ {"deploymentDone"})}}

\* the two checklist effects of the first render and the render they cause:
\* the stored text is read and merged over the unchecked checklist, the
\* unchecked checklist is written, then the merged checklist is written
ChecklistEffects ==
  /\ ~mounted
  /\ mounted' = TRUE
  /\ checklist' =
       IF stored.kind = "json" THEN MergeStored(checklist, Parse(stored.text))
       ELSE checklist
  /\ stored' = StoredJson(Stringify(checklist'))
  /\ UNCHANGED profileVars

\* a checkbox of the signed-in page, and the persist effect of the render it causes
handleChecklistToggle(key) ==
  /\ mounted
  /\ session # NoSession
  /\ checklist' = ToggleChecklist(checklist, key)
  /\ stored' = StoredJson(Stringify(checklist'))
  /\ UNCHANGED <<mounted, profileVars>>

\* the page is loaded anew: the state of the component starts over, calls in
\* flight answer to nobody, localStorage and the table stay
Reload ==
  /\ mounted
  /\ mounted' = FALSE
  /\ checklist' = INITIAL_CHECKLIST
  /\ session' = NoSession
  /\ displayName' = Empty
  /\ state' = INITIAL_STATE
  /\ profileSnapshot' = EmptySnapshot
  /\ status' = MsgNone
  /\ nameStatus' = MsgNone
  /\ buildStatus' = MsgNone
  /\ pending' = EmptyBag
  /\ UNCHANGED <<stored, userMeta, remote, events>>

InitChecklist ==
  /\ session = NoSession
  /\ userMeta = FixedMeta
  /\ displayName = Empty
  /\ state = INITIAL_STATE
  /\ profileSnapshot = EmptySnapshot
  /\ status = MsgNone
  /\ nameStatus = MsgNone
  /\ buildStatus = MsgNone
  /\ remote = [u \in Users |-> NoRow]
  /\ pending = EmptyBag
  /\ events = 0
  /\ checklist = INITIAL_CHECKLIST
  /\ stored \in StoredValues
  /\ mounted = FALSE

NextChecklist ==
  \/ ChecklistEffects
  \/ \E s \in {"u1", NoSession} : mounted /\ SessionChange(s)
  \/ \E req \in InFlight, ok \in BOOLEAN : LoadDone(req, ok)
  \/ \E key \in ChecklistKeys : handleChecklistToggle(key)
  \/ Reload

SpecChecklist == InitChecklist /\ [][NextChecklist]_vars

\* ============================================================ properties
\* --------------------------------------- vocabulary of the properties
AllBlank(s) == \A i \in 1..Len(s) : s[i] = Space

NoOuterBlank(t) == t = <<>> \/ (t[1] # Space /\ t[Len(t)] # Space)

\* t is raw without its leading and trailing blanks
IsTrimOf(t, raw) ==
  /\ NoOuterBlank(t)
  /\ \E i \in 0..Len(raw) :
       /\ i + Len(t) <= Len(raw)
       /\ SubSeq(raw, i + 1, i + Len(t)) = t
       /\ AllBlank(SubSeq(raw, 1, i))
       /\ AllBlank(SubSeq(raw, i + Len(t) + 1, Len(raw)))

Column(row, f) ==
  CASE f = "displayName" -> row.display_name
    [] f = "buildDescription" -> row.build_description
    [] f = "deploymentLink" -> row.deployment_link

ConfirmStep(f) ==
  CASE f = "displayName" -> handleConfirmName
    [] f = "buildDescription" -> handleConfirmBuildDescription
    [] f = "deploymentLink" -> handleConfirmLink

Saves == {req \in InFlight : req.kind = "save"}

Loads == {req \in InFlight : req.kind = "load"}

AllEmpty ==
  /\ displayName = Empty
  /\ state = INITIAL_STATE
  /\ profileSnapshot = EmptySnapshot
  /\ status = MsgNone
  /\ nameStatus = MsgNone
  /\ buildStatus = MsgNone

\* C1: a save that ends with 'saved' leaves its value in the snapshot entry of
\* its field under the 'saved' status, and a confirm of a field whose raw
\* input trims to the non-empty value of that snapshot entry reports
\* 'already saved' and issues no remote write: a value confirmed again right
\* after its save is written once.
C1_Idempotent ==
  [][/\ \A req \in Saves :
          SaveDone(req, TRUE) =>
            /\ profileSnapshot'[req.field] = req.value
            /\ StatusOf(req.field)' = SavedMsg(req.field)
     /\ \A f \in Fields :
          (/\ ConfirmStep(f)
           /\ profileSnapshot[f] # Empty
           /\ IsTrimOf(profileSnapshot[f], Buffer(f)))
          => /\ StatusOf(f)' = UnchangedMsg(f)
             /\ pending' = pending
             /\ remote' = remote
             /\ profileSnapshot' = profileSnapshot]_vars

\* the build description was saved for the current user and confirmed again:
\* 'already saved' is shown, nothing is in flight, the row holds the value
C1_Witness ==
  /\ session # NoSession
  /\ buildStatus = MsgBuildUnchanged
  /\ state.buildDescription = <<"a">>
  /\ profileSnapshot.buildDescription = <<"a">>
  /\ remote[session].build_description = <<"a">>
  /\ pending = EmptyBag

\* C2: a confirm of a raw input that is not blank leaves the trimmed input in
\* the edit buffer, on the 'already saved' path too; a write it issues carries
\* the trimmed input; every value in flight is trimmed and non-empty; a save
\* that succeeds stores that value in the row and in the snapshot.
C2_TrimNormalized ==
  [][/\ \A f \in Fields :
          (ConfirmStep(f) /\ ~AllBlank(Buffer(f)))
          => /\ IsTrimOf(Buffer(f)', Buffer(f))
             /\ Buffer(f)' # Empty
             /\ \/ /\ pending' = pending
                   /\ StatusOf(f)' = UnchangedMsg(f)
                \/ pending' =
                     pending (+) SetToBag({SaveRequest(session, f, Buffer(f)',
                                                       profileSnapshot.deploymentLink)})
     /\ \A req \in Saves :
          /\ req.value # Empty
          /\ NoOuterBlank(req.value)
          /\ SaveDone(req, TRUE) =>
               /\ Column(remote'[req.uid], req.field) = req.value
               /\ profileSnapshot'[req.field] = req.value]_vars

\* " a " was typed as the deployment link and saved: buffer, snapshot and row hold "a"
C2_Witness ==
  /\ session # NoSession
  /\ status = MsgLinkSaved
  /\ state.deploymentLink = <<"a">>
  /\ profileSnapshot.deploymentLink = <<"a">>
  /\ remote[session].deployment_link = <<"a">>

\* C3: a confirm of an empty or blank input shows the field's 'Add ... before
\* confirming' status, puts nothing in flight, and leaves the rows, the
\* snapshot, the edit buffers and the displayed confirmed link as they were.
C3_EmptyRejected ==
  [][\A f \in Fields :
       (ConfirmStep(f) /\ AllBlank(Buffer(f)))
       => /\ StatusOf(f)' = EmptyMsg(f)
          /\ pending' = pending
          /\ remote' = remote
          /\ profileSnapshot' = profileSnapshot
          /\ displayName' = displayName
          /\ state' = state]_vars

\* a blank deployment link was typed and rejected; an empty description was rejected
C3_Witness ==
  /\ status = MsgLinkEmpty
  /\ state.deploymentLink = <<Space>>
  /\ buildStatus = MsgBuildEmpty
  /\ state.buildDescription = Empty
  /\ pending = EmptyBag

\* C4: a confirm of field f, from the handler to the end of its save, whatever
\* its outcome, leaves the edit buffers, snapshot entries and status lines of
\* the other two fields and the other columns of every row as they were; the
\* call it puts in flight is a save of f alone; the name handlers leave the
\* displayed confirmed link alone.
C4_FieldIndependent ==
  [][\A f \in Fields :
       (\/ ConfirmStep(f)
        \/ \E req \in Saves, ok \in BOOLEAN : req.field = f /\ SaveDone(req, ok))
       => /\ \A g \in Fields \ {f} :
               /\ Buffer(g)' = Buffer(g)
               /\ profileSnapshot'[g] = profileSnapshot[g]
               /\ StatusOf(g)' = StatusOf(g)
               /\ \A u \in Users : Column(remote'[u], g) = Column(remote[u], g)
          /\ \A req \in BagToSet(pending') :
               req \notin InFlight \/ CopiesIn(req, pending') > CopiesIn(req, pending)
               => req.kind = "save" /\ req.field = f
          /\ f # "deploymentLink"
               => state'.confirmedDeploymentLink = state.confirmedDeploymentLink]_vars

\* the link save failed after the name save had succeeded: the name is as saved
C4_Witness ==
  /\ session # NoSession
  /\ status = MsgLinkFailed
  /\ nameStatus = MsgNameSaved
  /\ profileSnapshot.displayName = <<"b", Space, "b">>
  /\ remote[session].display_name = <<"b", Space, "b">>
  /\ displayName = <<"b", Space, "b">>
  /\ profileSnapshot.deploymentLink = Empty

\* C5: while nobody is signed in, the edit buffers, the snapshot, the displayed
\* confirmed link and the status lines are empty.
C5_LogoutReset == session = NoSession => AllEmpty

\* C6: the response of a load issued for a user who is not the current one
\* changes no edit buffer, snapshot entry, displayed link or status line.
C6_StaleLoadDiscarded ==
  [][\A req \in Loads, ok \in BOOLEAN :
       (req.uid # session /\ LoadDone(req, ok)) => UNCHANGED ui]_vars

\* C7: the end of a save issued for user A while user B is signed in changes
\* none of B's edit buffers, snapshot entries, displayed link or status lines.
C7_StaleSaveDiscarded ==
  [][\A req \in Saves, ok \in BOOLEAN :
       (session # NoSession /\ req.uid # session /\ SaveDone(req, ok))
       => UNCHANGED ui]_vars

\* the first of a list of candidates that is a non-empty text, else the empty text
RECURSIVE FirstNonEmpty(_)
FirstNonEmpty(candidates) ==
  IF candidates = <<>> THEN Empty
  ELSE IF Truthy(Head(candidates)) THEN Head(candidates)
       ELSE FirstNonEmpty(Tail(candidates))

\* the local part of an email, found by position
LocalPartOf(e) ==
  IF IsNullish(e) THEN Empty
  ELSE LET ats == {i \in 1..Len(e) : e[i] = "@"}
       IN  IF ats = {} THEN e
           ELSE SubSeq(e, 1, (CHOOSE i \in ats : \A j \in ats : i <= j) - 1)

\* C8: a load that succeeds shows the stored name when it is non-empty, else the
\* first non-empty of full name, name, user name and local part of the email,
\* else the empty text.
C8_FallbackName ==
  [][\A req \in Loads :
       LoadDone(req, TRUE) =>
         LET row == remote[req.uid]
             meta == userMeta[req.uid]
         IN  displayName' =
               FirstNonEmpty(<<IF row.exists THEN row.display_name ELSE Null,
                               meta.full_name, meta.name, meta.user_name,
                               LocalPartOf(meta.email)>>)]_vars

\* C9: the displayed confirmed link is empty or is the snapshot's link of the
\* signed-in user.
C9_ConfirmedLinkPersisted ==
  \/ state.confirmedDeploymentLink = Empty
  \/ /\ session # NoSession
     /\ state.confirmedDeploymentLink = profileSnapshot.deploymentLink

\* C10: after the failure of a link save is handled, the displayed confirmed
\* link is the snapshot's link of that moment.
C10_RollbackToSnapshot ==
  [][\A req \in Saves :
       (req.field = "deploymentLink" /\ SaveDone(req, FALSE))
       => state'.confirmedDeploymentLink = profileSnapshot'.deploymentLink]_vars

\* C11 (as claimed): a save that fails shows the field's "Couldn't save"
\* status, leaves the snapshot as it was, and the snapshot entry then differs
\* from the value that failed, so that confirming that value again writes it
\* again and does not report 'already saved'.
C11_FailedSaveRetryAlwaysWrites ==
  [][\A req \in Saves :
       SaveDone(req, FALSE) =>
         /\ StatusOf(req.field)' = FailedMsg(req.field)
         /\ profileSnapshot' = profileSnapshot
         /\ ~IsUnchanged(req.value, profileSnapshot'[req.field])]_vars

\* C11 (amended): a save that fails shows the field's "Couldn't save" status
\* and leaves the snapshot and the rows as they were; a confirm of a non-blank
\* input whose trimmed form differs from the snapshot entry of its field puts
\* a new save of that trimmed form in flight, also after a failure.
C11_FailureKeepsSnapshot ==
  [][/\ \A req \in Saves :
          SaveDone(req, FALSE) =>
            /\ StatusOf(req.field)' = FailedMsg(req.field)
            /\ profileSnapshot' = profileSnapshot
            /\ remote' = remote
     /\ \A f \in Fields :
          (/\ ConfirmStep(f)
           /\ ~AllBlank(Buffer(f))
           /\ ~IsTrimOf(profileSnapshot[f], Buffer(f)))
          => /\ \E req \in BagToSet(pending') :
                  /\ req.kind = "save" /\ req.field = f /\ req.uid = session
                  /\ IsTrimOf(req.value, Buffer(f))
                  /\ CopiesIn(req, pending') = CopiesIn(req, pending) + 1
             /\ StatusOf(f)' # UnchangedMsg(f)
             /\ profileSnapshot' = profileSnapshot]_vars

\* the only edit was of the name, its save failed while the load of the sign-in
\* was still unanswered, and the same name was confirmed again: a second save
\* of it is in flight under the "Couldn't save" status
C11_Witness ==
  /\ session # NoSession
  /\ events = 2
  /\ nameStatus = MsgNameFailed
  /\ profileSnapshot.displayName # displayName
  /\ \E req \in Saves : req.field = "displayName" /\ req.value = displayName
  /\ Loads # {}

\* C12 (as claimed): right after a save ends with 'saved', the snapshot entry
\* of its field is the confirmed trimmed value and equals the edit buffer of
\* that field.
C12_SavedBufferEqualsSnapshot ==
  [][\A req \in Saves :
       SaveDone(req, TRUE) =>
         /\ profileSnapshot'[req.field] = req.value
         /\ Buffer(req.field)' = profileSnapshot'[req.field]]_vars

\* C12 (amended): the confirm that puts a save in flight leaves the value of
\* that save, the trimmed input, in the edit buffer; when the save ends with
\* 'saved' the snapshot entry of its field is that value, and the end of the
\* save leaves the edit buffers as they are at that moment.
C12_SavedValueInSnapshot ==
  [][/\ \A f \in Fields :
          ConfirmStep(f) =>
            \A req \in BagToSet(pending') :
              CopiesIn(req, pending') > CopiesIn(req, pending)
              => req.value = Buffer(f)' /\ IsTrimOf(req.value, Buffer(f))
     /\ \A req \in Saves :
          SaveDone(req, TRUE) =>
            /\ profileSnapshot'[req.field] = req.value
            /\ \A g \in Fields : Buffer(g)' = Buffer(g)]_vars

\* the description "a" was saved while the user had already typed "b b" over it
C12_Witness ==
  /\ session # NoSession
  /\ buildStatus = MsgBuildSaved
  /\ profileSnapshot.buildDescription = <<"a">>
  /\ remote[session].build_description = <<"a">>
  /\ state.buildDescription = <<"b", Space, "b">>

\* C13: while somebody is signed in and no load or save is in flight, every
\* snapshot entry is the value stored for that field in the row of the
\* signed-in user, the empty text when there is no row or no stored value.
C13_SnapshotIsPersisted ==
  (session # NoSession /\ pending = EmptyBag)
  => \A f \in Fields :
       profileSnapshot[f] =
         IF remote[session].exists
         THEN Coalesce(Column(remote[session], f), Empty)
         ELSE Empty

\* C14: a load of the signed-in user that fails leaves the three status lines
\* as they were, and after it the snapshot and the displayed confirmed link
\* are empty: no value of an earlier load or of an earlier user remains.
C14_LoadFailsOpen ==
  [][\A req \in Loads :
       (req.uid = session /\ LoadDone(req, FALSE))
       => /\ status' = status
          /\ nameStatus' = nameStatus
          /\ buildStatus' = buildStatus
          /\ profileSnapshot' = EmptySnapshot
          /\ state'.confirmedDeploymentLink = Empty]_vars

\* C15: a load that succeeds sets, in its one step, the edit buffer and the
\* snapshot entry of every field to the same loaded value: the stored
\* description and link, or the empty text when there is no row or no stored
\* value; the stored name when there is one, else one of the provider's names
\* or the empty text; the displayed confirmed link becomes the loaded link and
\* the three status lines are cleared.
C15_AtomicLoad ==
  [][\A req \in Loads :
       LoadDone(req, TRUE) =>
         LET row == remote[req.uid]
             meta == userMeta[req.uid]
             Stored(f) == row.exists /\ ~IsNullish(Column(row, f))
         IN  /\ \A f \in Fields : Buffer(f)' = profileSnapshot'[f]
             /\ \A f \in {"buildDescription", "deploymentLink"} :
                  profileSnapshot'[f] = IF Stored(f) THEN Column(row, f) ELSE Empty
             /\ IF Stored("displayName")
                THEN displayName' = row.display_name
                ELSE displayName' \in
                       ({meta.full_name, meta.name, meta.user_name,
                         LocalPartOf(meta.email), Empty} \ {Null, Undefined})
             /\ state'.confirmedDeploymentLink = profileSnapshot'.deploymentLink
             /\ status' = MsgNone
             /\ nameStatus' = MsgNone
             /\ buildStatus' = MsgNone]_vars

\* the link "a" was saved, the session was refreshed and its load answered:
\* buffer, snapshot, badge and row hold "a" and the status lines are clear
C15_Witness ==
  /\ session # NoSession
  /\ pending = EmptyBag
  /\ remote[session].deployment_link = <<"a">>
  /\ state.deploymentLink = <<"a">>
  /\ state.confirmedDeploymentLink = <<"a">>
  /\ profileSnapshot.deploymentLink = <<"a">>
  /\ state.buildDescription = Empty
  /\ profileSnapshot.buildDescription = Empty
  /\ status = MsgNone
  /\ nameStatus = MsgNone
  /\ buildStatus = MsgNone

\* the value a stored text holds for a step, unchecked when it holds none
PersistedValue(st, key) ==
  /\ st.kind = "json"
  /\ \E i \in 1..Len(st.text) : st.text[i] = <<key, TRUE>>

\* the stored text holds every step, with the value the checklist shows
PersistedEquals(st, map) ==
  /\ st.kind = "json"
  /\ \A key \in ChecklistKeys :
       /\ \E i \in 1..Len(st.text) : st.text[i][1] = key
       /\ PersistedValue(st, key) = Checked(map, key)

\* C16: a toggle of a step flips that step and no other, and after it the
\* stored text is the shown checklist; the effects of a page load show every
\* step with the value the stored text held for it, unchecked for a step it
\* did not hold, and leave the shown checklist stored.
C16_ChecklistPersistence ==
  [][/\ \A key \in ChecklistKeys :
          handleChecklistToggle(key) =>
            /\ Checked(checklist', key) = ~Checked(checklist, key)
            /\ \A other \in ChecklistKeys \ {key} :
                 Checked(checklist', other) = Checked(checklist, other)
            /\ PersistedEquals(stored', checklist')
     /\ ChecklistEffects =>
          /\ \A key \in ChecklistKeys :
               Checked(checklist', key) = PersistedValue(stored, key)
          /\ PersistedEquals(stored', checklist')]_vars

\* the last step, which no earlier visit had stored, was checked after the one
\* sign-in, the page was loaded anew (nobody is signed in, yet no sign-out was
\* counted) and shows it checked again, the first step unchecked
C16_Witness ==
  /\ mounted
  /\ session = NoSession
  /\ events = 1
  /\ Checked(checklist, "deploymentDone")
  /\ ~Checked(checklist, "githubRepoCreated")
  /\ PersistedEquals(stored, checklist)

\* C17: a confirm of one field is carried out while a save of another field
\* is in flight, and leaves that save in flight; a save that ends with 'saved'
\* stores its value in the snapshot entry of its field, leaves the entries of
\* the other fields and the saves of other fields in flight as they were; a
\* field under the 'saved' status keeps a value in its snapshot entry whatever
\* other saves have ended since.
C17_ConcurrentFieldsKept ==
  [][/\ \A f \in Fields :
          (/\ ConfirmStep(f)
           /\ ~AllBlank(Buffer(f))
           /\ ~IsTrimOf(profileSnapshot[f], Buffer(f)))
          => /\ \A req \in Saves : CopiesIn(req, pending') >= CopiesIn(req, pending)
             /\ \E new \in BagToSet(pending') :
                  /\ new.kind = "save" /\ new.field = f
                  /\ CopiesIn(new, pending') = CopiesIn(new, pending) + 1
     /\ \A req \in Saves :
          SaveDone(req, TRUE) =>
            /\ profileSnapshot'[req.field] = req.value
            /\ \A other \in Saves :
                 other.field # req.field
                 => /\ CopiesIn(other, pending') = CopiesIn(other, pending)
                    /\ profileSnapshot'[other.field] = profileSnapshot[other.field]
     /\ \A f \in Fields :
          StatusOf(f)' = SavedMsg(f) => profileSnapshot'[f] # Empty]_vars

\* the save of the name and the save of the description are in flight together
C17_Witness ==
  /\ session # NoSession
  /\ \E r1, r2 \in Saves :
       /\ r1.field = "displayName" /\ r1.value = displayName
       /\ r2.field = "buildDescription" /\ r2.value = state.buildDescription
       /\ r1.uid = session /\ r2.uid = session

\* C18: no two saves of the same field for the same user are in flight together.
C18_NoConcurrentWriters ==
  \A r1, r2 \in Saves :
    (r1.field = r2.field /\ r1.uid = r2.uid)
    => r1 = r2 /\ CopiesIn(r1, pending) = 1

\* C19: an edit of the deployment link input empties the displayed confirmed
\* link, which hides the 'Live URL' badge, and clears the link status; an edit
\* of the name or of the description clears the status of that field; an edit
\* leaves the snapshot, the rows and the calls in flight as they were.
C19_EditUnconfirms ==
  [][\A v \in Inputs :
       /\ DeployLinkChange(v) =>
            /\ state'.deploymentLink = v
            /\ state'.confirmedDeploymentLink = Empty
            /\ ~showDeploymentLinkBadge'
            /\ status' = MsgNone
       /\ DisplayNameChange(v) => displayName' = v /\ nameStatus' = MsgNone
       /\ BuildDescriptionChange(v) => state'.buildDescription = v /\ buildStatus' = MsgNone
       /\ (DeployLinkChange(v) \/ DisplayNameChange(v) \/ BuildDescriptionChange(v))
          => /\ profileSnapshot' = profileSnapshot
             /\ remote' = remote
             /\ pending' = pending]_vars

\* the link "a" was saved and the input then edited to "b b": the badge and
\* the status are gone, snapshot and row still hold "a", nothing is in flight
C19_Witness ==
  /\ session # NoSession
  /\ state.deploymentLink = <<"b", Space, "b">>
  /\ ~showDeploymentLinkBadge
  /\ status = MsgNone
  /\ profileSnapshot.deploymentLink = <<"a">>
  /\ remote[session].deployment_link = <<"a">>
  /\ pending = EmptyBag
====
